---------------------------- MODULE Spec2Model ----------------------------
(***************************************************************************)
(* CRC-32 calculator of src/main.py (class CRC32Calculator and the part of *)
(* the interactive shell that feeds it).                                   *)
(*                                                                         *)
(* Python integers are unbounded and non-negative here, and TLC's integers *)
(* stop at 2^31-1, so an integer value of the program is represented by    *)
(* the set of the positions of its 1 bits: 0x80000000 is {31}, 0xFFFFFFFF  *)
(* is 0..31, and a value that has outgrown 32 bits (before the program     *)
(* masks it) holds positions above 31.  Bytes, positions in a buffer and   *)
(* loop counters stay plain integers; BitsOf and IntOf pass between the    *)
(* two where the program shifts a byte or indexes the table.               *)
(***************************************************************************)
EXTENDS Integers, Sequences, FiniteSets, TLC

VARIABLES
    crc_table,      \* crc_table[e]: self.crc_table of calculator instance e
    data,           \* the byte buffer the caller holds
    ret,            \* the last completed call of a public method, with its result
    memo,           \* an earlier completed call, kept for comparison
    pc,             \* position inside a running CRC computation (SpecStep)
    crc,            \* the local register `crc` of the running computation
    pos,            \* index (1-based) of the byte the running loop is at
    round,          \* inner-loop iterations done for the current byte
    table_index     \* the local `table_index` of _calculate_crc_table

vars == <<crc_table, data, ret, memo, pc, crc, pos, round, table_index>>

----------------------------------------------------------------------------
(* Bounds of the model *)

\* Every sequence over SampleBytes of length up to MaxLen is an input.
MaxLen == 2
\* Length of the one long input buffer.
LongLen == 257
\* Calculator instances constructed in SpecHist (Spec and SpecStep construct
\* the one of menu_principal).
NumEngines == 2
\* A corrupted buffer differs from the original in one of its first MaxFlipPos bytes.
MaxFlipPos == 2

----------------------------------------------------------------------------
(* Integers as sets of bit positions *)

Shl(a, n) == {i + n : i \in a}                  \* a << n
Shr(a, n) == {i - n : i \in {j \in a : j >= n}} \* a >> n
Xor(a, b) == (a \ b) \cup (b \ a)               \* a ^ b
And(a, b) == a \cap b                           \* a & b

\* The bits of a small non-negative integer (a byte, a hexadecimal digit).
RECURSIVE BitsOf(_)
BitsOf(n) == IF n = 0 THEN {}
             ELSE (IF n % 2 = 1 THEN {0} ELSE {}) \cup Shl(BitsOf(n \div 2), 1)

\* The integer a set of bit positions stands for (it must fit TLC's integers).
RECURSIVE IntOf(_)
IntOf(s) == IF s = {} THEN 0
            ELSE (IF 0 \in s THEN 1 ELSE 0) + 2 * IntOf(Shr(s, 1))

\* A hexadecimal literal, most significant digit first: 0x04C11DB7 is
\* FromHex(<<0,4,12,1,1,13,11,7>>).
RECURSIVE FromHex(_)
FromHex(digits) ==
    IF digits = <<>> THEN {}
    ELSE LET n == Len(digits)
         IN  BitsOf(digits[n]) \cup Shl(FromHex(SubSeq(digits, 1, n - 1)), 4)

----------------------------------------------------------------------------
(* class CRC32Calculator *)

POLYNOMIAL    == FromHex(<<0, 4, 12, 1, 1, 13, 11, 7>>)         \* 0x04C11DB7
INITIAL_VALUE == FromHex(<<15, 15, 15, 15, 15, 15, 15, 15>>)    \* 0xFFFFFFFF
\* Faulty variant of FINAL_XOR: the final inversion is left out.
FINAL_XOR_none == {}
FINAL_XOR     == FromHex(<<15, 15, 15, 15, 15, 15, 15, 15>>)    \* 0xFFFFFFFF
MASK32        == FromHex(<<15, 15, 15, 15, 15, 15, 15, 15>>)    \* 0xFFFFFFFF
TOPBIT        == FromHex(<<8, 0, 0, 0, 0, 0, 0, 0>>)            \* 0x80000000

\* range(256): the byte values, and the indexes of the table
TABLE_SIZE == 256
\* range(8): iterations of the inner loops
ROUNDS == 8

Bytes == 0..(TABLE_SIZE - 1)

\* Faulty variant of TableGenRounds: crc &= 0xFFFFFFFF is left out.
RECURSIVE TableGenRounds_nomask(_, _)
TableGenRounds_nomask(c, n) ==
    IF n = 0 THEN c
    ELSE IF And(c, TOPBIT) # {}
         THEN TableGenRounds_nomask(Xor(Shl(c, 1), POLYNOMIAL), n - 1)
         ELSE TableGenRounds_nomask(Shl(c, 1), n - 1)

\* The inner loop of _generate_crc_table, n iterations still to run:
\*   if crc & 0x80000000: crc = (crc << 1) ^ POLYNOMIAL  else: crc = crc << 1
\*   crc &= 0xFFFFFFFF
RECURSIVE TableGenRounds(_, _)
TableGenRounds(c, n) ==
    IF n = 0 THEN c
    ELSE IF And(c, TOPBIT) # {}
         THEN TableGenRounds(And(Xor(Shl(c, 1), POLYNOMIAL), MASK32), n - 1)
         ELSE TableGenRounds(And(Shl(c, 1), MASK32), n - 1)

\* The value appended for i: crc = i << 24, then the 8 rounds.
TableGenEntry(i) == TableGenRounds(Shl(BitsOf(i), 24), ROUNDS)

\* A Python list indexed 0..255 is a sequence indexed 1..256: table[i] of
\* the program is table[i + 1] here.
_generate_crc_table == [k \in 1..TABLE_SIZE |-> TableGenEntry(k - 1)]

\* crc ^= byte << 24
DirectXorByte(c, byte) == Xor(c, Shl(BitsOf(byte), 24))

\* One iteration of the inner loop of _calculate_crc_direct:
\*   if crc & 0x80000000: crc = (crc << 1) ^ POLYNOMIAL  else: crc = crc << 1
\*   crc &= 0xFFFFFFFF
DirectRound(c) ==
    IF And(c, TOPBIT) # {}
    THEN And(Xor(Shl(c, 1), POLYNOMIAL), MASK32)
    ELSE And(Shl(c, 1), MASK32)

\* The inner loop: for _ in range(8), n iterations still to run.
RECURSIVE DirectRounds(_, _)
DirectRounds(c, n) == IF n = 0 THEN c ELSE DirectRounds(DirectRound(c), n - 1)

\* The body of the outer loop for one byte.
DirectByte(c, byte) == DirectRounds(DirectXorByte(c, byte), ROUNDS)

\* The outer loop over d[lo..hi], in order: the first half of the range,
\* then the second half, starting from the register the first half left.
\* (left = left is TRUE; testing it makes TLC compute the first half's
\* register before it enters the second half, so that its evaluation nests
\* one level per halving and not one per byte.)
RECURSIVE DirectLoop(_, _, _, _)
DirectLoop(c, d, lo, hi) ==
    IF lo > hi THEN c
    ELSE IF lo = hi THEN DirectByte(c, d[lo])
    ELSE LET mid  == (lo + hi) \div 2
             left == DirectLoop(c, d, lo, mid)
         IN  CASE left = left -> DirectLoop(left, d, mid + 1, hi)

_calculate_crc_direct(d) == Xor(DirectLoop(INITIAL_VALUE, d, 1, Len(d)), FINAL_XOR)

\* Faulty variant of TableIndex: the low byte of the register, crc & 0xFF,
\* is taken in place of its high byte (the indexing of the reflected CRC-32).
TableIndex_lowbyte(c, byte) == Xor(And(c, BitsOf(255)), BitsOf(byte))

\* Faulty variant of TableIndex: the byte is cut to 7 bits, byte & 0x7F.
TableIndex_ascii(c, byte) == Xor(Shr(c, 24), And(BitsOf(byte), BitsOf(127)))

\* table_index = (crc >> 24) ^ byte
TableIndex(c, byte) == Xor(Shr(c, 24), BitsOf(byte))

\* Whether table[index] exists (otherwise Python raises IndexError).
InTable(table, index) == (\A i \in index : i <= 30) /\ IntOf(index) < Len(table)

\* Faulty variant of TableUpdate: & 0xFFFFFFFF is left out.
TableUpdate_nomask(table, c, index) == Xor(Shl(c, 8), table[IntOf(index) + 1])

\* crc = ((crc << 8) ^ self.crc_table[table_index]) & 0xFFFFFFFF
TableUpdate(table, c, index) == And(Xor(Shl(c, 8), table[IntOf(index) + 1]), MASK32)

\* The body of the loop for one byte.
TableByte(table, c, byte) == TableUpdate(table, c, TableIndex(c, byte))

\* The loop over d[lo..hi], in order: the first half of the range, then the
\* second half, starting from the register the first half left (see DirectLoop).
RECURSIVE TableLoop(_, _, _, _, _)
TableLoop(table, c, d, lo, hi) ==
    IF lo > hi THEN c
    ELSE IF lo = hi THEN TableByte(table, c, d[lo])
    ELSE LET mid  == (lo + hi) \div 2
             left == TableLoop(table, c, d, lo, mid)
         IN  CASE left = left -> TableLoop(table, left, d, mid + 1, hi)

_calculate_crc_table(table, d) ==
    Xor(TableLoop(table, INITIAL_VALUE, d, 1, Len(d)), FINAL_XOR)

calculate_crc(table, d, use_table) ==
    IF use_table THEN _calculate_crc_table(table, d) ELSE _calculate_crc_direct(d)

\* Faulty variant of calculate_fcs: the complement is taken with 0x0FFFFFFF.
calculate_fcs_short(table, d) ==
    LET c   == calculate_crc(table, d, TRUE)
        fcs == Xor(c, FromHex(<<15, 15, 15, 15, 15, 15, 15>>))
    IN  <<c, fcs>>

\* returns the tuple (crc, fcs)
calculate_fcs(table, d) ==
    LET c   == calculate_crc(table, d, TRUE)
        fcs == Xor(c, FromHex(<<15, 15, 15, 15, 15, 15, 15, 15>>))
    IN  <<c, fcs>>

\* Faulty variant of validate_frame: the received FCS is compared with the CRC.
validate_frame_crc(table, d, received_fcs) ==
    LET cf       == calculate_fcs(table, d)
        is_valid == (cf[1] = received_fcs)
    IN  <<is_valid, cf[1], cf[2]>>

\* Faulty variant of validate_frame: the received FCS is returned in place
\* of the calculated one.
validate_frame_echo(table, d, received_fcs) ==
    LET cf       == calculate_fcs(table, d)
        is_valid == (cf[2] = received_fcs)
    IN  <<is_valid, cf[1], received_fcs>>

\* returns the tuple (is_valid, calculated_crc, calculated_fcs)
validate_frame(table, d, received_fcs) ==
    LET cf       == calculate_fcs(table, d)
        is_valid == (cf[2] = received_fcs)
    IN  <<is_valid, cf[1], cf[2]>>

----------------------------------------------------------------------------
(* The callers' inputs *)

SampleBytes == {0, 1, 72, 128, 255}

SeqsUpTo(n) == UNION {[1..k -> SampleBytes] : k \in 0..n}

HELLO       == <<72, 69, 76, 76, 79>>                               \* b"HELLO"
HELLO_WORLD == <<72, 101, 108, 108, 111, 32, 87, 111, 114, 108, 100>>

\* A buffer longer than the table.
LongBuffer == [i \in 1..LongLen |-> (7 * i + 3) % TABLE_SIZE]

Inputs == {<<b>> : b \in Bytes} \cup SeqsUpTo(MaxLen) \cup {HELLO, HELLO_WORLD, LongBuffer}

\* d with bit k of its p-th byte flipped
FlipBit(d, p, k) == [d EXCEPT ![p] = IntOf(Xor(BitsOf(d[p]), {k}))]

\* The buffers that differ from d in exactly one bit, in its first MaxFlipPos bytes.
OneBitOff(d) ==
    {FlipBit(d, p, k) : p \in 1..(IF Len(d) < MaxFlipPos THEN Len(d) ELSE MaxFlipPos),
                        k \in 0..7}

\* An FCS the user types at "Digite o FCS recebido em hexadecimal (ex: ABCD1234)"
TypedFcs == {FromHex(<<10, 11, 12, 13, 1, 2, 3, 4>>)}

\* Received FCS values of SpecHist: 0x00000000, 0xFFFFFFFF, 0xABCD1234
HistFcsValues == {FromHex(<<0>>), FromHex(<<15, 15, 15, 15, 15, 15, 15, 15>>)} \cup TypedFcs

----------------------------------------------------------------------------
(* Calls of the public methods *)

NoFcs == {-1}      \* the call has no received_fcs argument

Idle == [op |-> "none", eng |-> 0, data |-> <<>>, use_table |-> FALSE,
         received_fcs |-> NoFcs, result |-> {}]

Engines == 1..NumEngines

\* calculator = CRC32Calculator() in menu_principal
calculator == 1

\* __init__ of each instance in E: self.crc_table = self._generate_crc_table()
Construct(E) == crc_table = [e \in E |-> _generate_crc_table]

do_calculate_crc(e, d, use_table) ==
    /\ ret' = [op |-> "calculate_crc", eng |-> e, data |-> d, use_table |-> use_table,
               received_fcs |-> NoFcs,
               result |-> calculate_crc(crc_table[e], d, use_table)]
    /\ UNCHANGED crc_table

\* Faulty variant of do_calculate_fcs: the call empties the entries of the table.
do_calculate_fcs_clobber(e, d) ==
    /\ ret' = [op |-> "calculate_fcs", eng |-> e, data |-> d, use_table |-> TRUE,
               received_fcs |-> NoFcs,
               result |-> calculate_fcs(crc_table[e], d)]
    /\ crc_table' = [crc_table EXCEPT ![e] = [k \in 1..TABLE_SIZE |-> {}]]

do_calculate_fcs(e, d) ==
    /\ ret' = [op |-> "calculate_fcs", eng |-> e, data |-> d, use_table |-> TRUE,
               received_fcs |-> NoFcs,
               result |-> calculate_fcs(crc_table[e], d)]
    /\ UNCHANGED crc_table

\* Faulty variant of do_validate_frame: the call builds the table again and
\* appends it to the list.
do_validate_frame_rebuild(e, d, received_fcs) ==
    /\ ret' = [op |-> "validate_frame", eng |-> e, data |-> d, use_table |-> TRUE,
               received_fcs |-> received_fcs,
               result |-> validate_frame(crc_table[e], d, received_fcs)]
    /\ crc_table' = [crc_table EXCEPT ![e] = @ \o _generate_crc_table]

do_validate_frame(e, d, received_fcs) ==
    /\ ret' = [op |-> "validate_frame", eng |-> e, data |-> d, use_table |-> TRUE,
               received_fcs |-> received_fcs,
               result |-> validate_frame(crc_table[e], d, received_fcs)]
    /\ UNCHANGED crc_table

NotRunning == pc = "idle" /\ UNCHANGED <<pc, crc, pos, round, table_index>>

Init ==
    /\ Construct({calculator})
    /\ data \in Inputs
    /\ ret = Idle
    /\ memo = Idle
    /\ pc = "idle" /\ crc = {} /\ pos = 0 /\ round = 0 /\ table_index = {}

\* calculate_crc(data, use_table)
Crc == \E u \in BOOLEAN :
          do_calculate_crc(calculator, data, u) /\ NotRunning /\ UNCHANGED <<data, memo>>

\* crc1, fcs1 = calculator.calculate_fcs(example1_data)
Fcs == do_calculate_fcs(calculator, data) /\ NotRunning /\ UNCHANGED <<data, memo>>

\* validate_frame with an FCS the user typed
ValidateTyped == \E r \in TypedFcs :
          do_validate_frame(calculator, data, r) /\ NotRunning /\ UNCHANGED <<data, memo>>

\* validate_frame(example1_data, fcs1): the frame as it was sent
ValidateSent ==
    /\ ret.op = "calculate_fcs"
    /\ do_validate_frame(calculator, data, ret.result[2])
    /\ NotRunning /\ UNCHANGED <<data, memo>>

\* corrupted_fcs = fcs1 ^ 0x00000001, for every bit of the FCS
ValidateCorruptedFcs ==
    /\ ret.op = "calculate_fcs"
    /\ \E k \in 0..31 : do_validate_frame(calculator, data, Xor(ret.result[2], {k}))
    /\ NotRunning /\ UNCHANGED <<data, memo>>

\* validate_frame on received data one bit away from the data the FCS was taken of
ValidateCorruptedData ==
    /\ ret.op = "calculate_fcs"
    /\ \E d \in OneBitOff(data) : do_validate_frame(calculator, d, ret.result[2])
    /\ NotRunning /\ UNCHANGED <<data, memo>>

Next == Crc \/ Fcs \/ ValidateTyped \/ ValidateSent \/ ValidateCorruptedFcs
           \/ ValidateCorruptedData

Spec == Init /\ [][Next]_vars

----------------------------------------------------------------------------
(* SpecHist: any sequence of calls, with any arguments, on several instances *)

HistInputs == {<<>>, HELLO}

InitHist ==
    /\ Construct(Engines)
    /\ data = <<>>
    /\ ret = Idle
    /\ memo = Idle
    /\ pc = "idle" /\ crc = {} /\ pos = 0 /\ round = 0 /\ table_index = {}

\* memo keeps an earlier call: the one it held, or the call that just ended.
Remember == memo' \in {memo, ret}

HistCrc == \E e \in Engines, d \in HistInputs, u \in BOOLEAN :
    do_calculate_crc(e, d, u) /\ data' = d /\ Remember /\ NotRunning

HistFcs == \E e \in Engines, d \in HistInputs :
    do_calculate_fcs(e, d) /\ data' = d /\ Remember /\ NotRunning

HistValidate == \E e \in Engines, d \in HistInputs, r \in HistFcsValues :
    do_validate_frame(e, d, r) /\ data' = d /\ Remember /\ NotRunning

NextHist == HistCrc \/ HistFcs \/ HistValidate

SpecHist == InitHist /\ [][NextHist]_vars

----------------------------------------------------------------------------
(* SpecStep: calculate_crc and calculate_fcs, one loop iteration at a time *)

Pending(op, use_table) ==
    [op |-> op, eng |-> calculator, data |-> data, use_table |-> use_table,
     received_fcs |-> NoFcs, result |-> {}]

\* calculate_crc(data, use_table) is entered: crc = self.INITIAL_VALUE
StartCrc == \E u \in BOOLEAN :
    /\ pc = "idle"
    /\ ret' = Pending("calculate_crc", u)
    /\ crc' = INITIAL_VALUE /\ pos' = 1 /\ round' = 0 /\ table_index' = {}
    /\ pc' = IF u THEN "table_loop" ELSE "direct_loop"
    /\ UNCHANGED <<crc_table, data, memo>>

\* calculate_fcs(data) is entered: it calls calculate_crc(data)
StartFcs ==
    /\ pc = "idle"
    /\ ret' = Pending("calculate_fcs", TRUE)
    /\ crc' = INITIAL_VALUE /\ pos' = 1 /\ round' = 0 /\ table_index' = {}
    /\ pc' = "table_loop"
    /\ UNCHANGED <<crc_table, data, memo>>

\* One iteration of the loop of _calculate_crc_table.
TableStep ==
    /\ pc = "table_loop" /\ pos <= Len(data)
    /\ table_index' = TableIndex(crc, data[pos])
    /\ IF InTable(crc_table[calculator], table_index')
       THEN /\ crc' = TableUpdate(crc_table[calculator], crc, table_index')
            /\ pos' = pos + 1
            /\ pc' = pc
       ELSE /\ pc' = "IndexError"
            /\ UNCHANGED <<crc, pos>>
    /\ UNCHANGED <<crc_table, data, ret, memo, round>>

\* crc ^= byte << 24, at the head of an iteration of the outer loop of
\* _calculate_crc_direct
DirectStart ==
    /\ pc = "direct_loop" /\ pos <= Len(data)
    /\ crc' = DirectXorByte(crc, data[pos])
    /\ round' = 0
    /\ pc' = "direct_rounds"
    /\ UNCHANGED <<crc_table, data, ret, memo, pos, table_index>>

\* One iteration of the inner loop; after the last one the outer loop moves on.
DirectStep ==
    /\ pc = "direct_rounds"
    /\ crc' = DirectRound(crc)
    /\ IF round + 1 < ROUNDS
       THEN round' = round + 1 /\ UNCHANGED <<pc, pos>>
       ELSE round' = 0 /\ pc' = "direct_loop" /\ pos' = pos + 1
    /\ UNCHANGED <<crc_table, data, ret, memo, table_index>>

\* return crc ^ self.FINAL_XOR; calculate_fcs goes on to return (crc, crc ^ 0xFFFFFFFF)
Return ==
    /\ pc \in {"table_loop", "direct_loop"} /\ pos > Len(data)
    /\ LET c == Xor(crc, FINAL_XOR)
       IN  ret' = [ret EXCEPT !.result =
                      IF ret.op = "calculate_fcs" THEN <<c, Xor(c, MASK32)>> ELSE c]
    /\ pc' = "idle"
    /\ UNCHANGED <<crc_table, data, memo, crc, pos, round, table_index>>

NextStep == StartCrc \/ StartFcs \/ TableStep \/ DirectStart \/ DirectStep \/ Return

SpecStep == Init /\ [][NextStep]_vars

----------------------------------------------------------------------------
(* The claims *)

\* The 32-bit values, 0..2^32-1
Word32 == SUBSET (0..31)

\* C1: whatever strategy a completed calculate_crc call used, its result is
\* the value the other strategy computes for the same bytes (the empty
\* buffer, every single byte and a buffer of more than 256 bytes included).
C1_Equivalence ==
    ret.op = "calculate_crc" =>
        ret.result = calculate_crc(crc_table[ret.eng], ret.data, ~ret.use_table)

C1_Witness ==
    /\ ret.op = "calculate_crc" /\ ret.use_table
    /\ Len(ret.data) > TABLE_SIZE
    /\ ret.result = _calculate_crc_direct(ret.data)

\* C2: validate_frame(d, r) is valid when r is the FCS calculate_fcs gives
\* for d, and invalid when r is that FCS with any one of its 32 bits flipped.
C2_ValidationCorrectness ==
    ret.op = "validate_frame" =>
        LET fcs == calculate_fcs(crc_table[ret.eng], ret.data)[2]
        IN  /\ ret.received_fcs = fcs => ret.result[1] = TRUE
            /\ \A k \in 0..31 : ret.received_fcs = Xor(fcs, {k}) => ret.result[1] = FALSE

C2_Witness ==
    /\ ret.op = "validate_frame"
    /\ ret.data = data
    /\ ret.received_fcs = Xor(calculate_fcs(crc_table[ret.eng], data)[2], {31})
    /\ ret.result[1] = FALSE

\* C3: calculate_fcs(d) returns (crc, fcs) with crc = calculate_crc(d) and
\* fcs = crc XOR 0xFFFFFFFF, so that fcs XOR crc = 0xFFFFFFFF.
C3_ComplementLaw ==
    ret.op = "calculate_fcs" =>
        /\ ret.result[1] = calculate_crc(crc_table[ret.eng], ret.data, TRUE)
        /\ ret.result[2] = Xor(ret.result[1], 0..31)
        /\ Xor(ret.result[2], ret.result[1]) = 0..31

C3_Witness ==
    /\ ret.op = "calculate_fcs"
    /\ ret.data = HELLO_WORLD
    /\ ret.result[1] # {}
    /\ ret.result[2] = (0..31) \ ret.result[1]

\* The FCS of b"HELLO", 0x8CD7CDBA (its CRC is 0x73283245)
F_HELLO == FromHex(<<8, 12, 13, 7, 12, 13, 11, 10>>)

\* C4: validate_frame(d, r) returns the crc and fcs of calculate_fcs(d),
\* whatever r is, and is_valid is TRUE exactly when that fcs equals r; for
\* b"HELLO" with correct FCS F, r = F XOR 1 gives is_valid = FALSE and
\* calculated_fcs = F.
C4_ValidateReturns ==
    ret.op = "validate_frame" =>
        /\ <<ret.result[2], ret.result[3]>> = calculate_fcs(crc_table[ret.eng], ret.data)
        /\ ret.result[1] = (ret.result[3] = ret.received_fcs)
        /\ (ret.data = HELLO /\ ret.received_fcs = Xor(F_HELLO, {0}))
              => (ret.result[1] = FALSE /\ ret.result[3] = F_HELLO)

C4_Witness ==
    /\ ret.op = "validate_frame"
    /\ ret.data = HELLO
    /\ ret.received_fcs = Xor(F_HELLO, {0})
    /\ ret.result[1] = FALSE
    /\ ret.result[3] = F_HELLO

\* C5: on the empty buffer no loop iteration runs, the register stays
\* 0xFFFFFFFF, and calculate_crc returns 0 under both strategies.
C5_EmptyInput ==
    data = <<>> =>
        /\ pc # "idle" => (crc = 0..31 /\ pos = 1 /\ round = 0)
        /\ (pc = "idle" /\ ret.op = "calculate_crc") => ret.result = {}

C5_Witness ==
    /\ data = <<>>
    /\ pc = "idle" /\ ret.op = "calculate_crc" /\ ~ret.use_table
    /\ ret.result = {}

\* C6: a call returns what an earlier call with the same arguments returned,
\* whatever calls were made in between and whichever instance served each.
C6_Determinism ==
    (/\ memo.op = ret.op /\ memo.op # "none"
     /\ memo.data = ret.data
     /\ memo.use_table = ret.use_table
     /\ memo.received_fcs = ret.received_fcs)
        => memo.result = ret.result

C6_Witness ==
    /\ memo.op = "validate_frame" /\ ret.op = "validate_frame"
    /\ memo.data = HELLO /\ ret.data = HELLO
    /\ memo.received_fcs = ret.received_fcs
    /\ memo.eng # ret.eng
    /\ memo.result = ret.result

\* One step of the division as the claim words it: shift left by 1, XOR with
\* 0x04C11DB7 when the top bit was set before the shift, mask to 32 bits.
DivisionStep(c) ==
    LET top     == 31 \in c
        shifted == {i + 1 : i \in c}
        poly    == {26, 23, 22, 16, 12, 11, 10, 8, 7, 5, 4, 2, 1, 0}
    IN  (IF top THEN (shifted \ poly) \cup (poly \ shifted) ELSE shifted) \cap (0..31)

Division8(c) ==
    DivisionStep(DivisionStep(DivisionStep(DivisionStep(
    DivisionStep(DivisionStep(DivisionStep(DivisionStep(c))))))))

\* C7: the table built at construction has exactly 256 entries; entry i is
\* the register reached from i << 24 by 8 division steps; every entry is a
\* 32-bit value.
C7_TableContents ==
    \A e \in DOMAIN crc_table :
        /\ Len(crc_table[e]) = 256
        /\ \A i \in 0..255 :
              /\ crc_table[e][i + 1] = Division8({b + 24 : b \in BitsOf(i)})
              /\ crc_table[e][i + 1] \in Word32

\* entries 1 and 255 are 0x04C11DB7 and 0xB1F740B4
C7_Witness ==
    /\ Len(crc_table[calculator]) = 256
    /\ crc_table[calculator][1 + 1] = {26, 23, 22, 16, 12, 11, 10, 8, 7, 5, 4, 2, 1, 0}
    /\ crc_table[calculator][255 + 1] = FromHex(<<11, 1, 15, 7, 4, 0, 11, 4>>)

\* C8: after any sequence of calls every instance's table is, entry for
\* entry, the table its constructor built.
C8_TableReadOnly == crc_table = [e \in Engines |-> _generate_crc_table]

C8_Witness ==
    /\ memo.op = "calculate_crc" /\ ~memo.use_table
    /\ ret.op = "validate_frame"
    /\ crc_table[ret.eng] = _generate_crc_table

\* C9: while a computation runs the register is a 32-bit value after every
\* per-byte step of the table strategy and every per-bit step of the direct
\* strategy, the table index is in 0..255 (no IndexError), and the CRC and
\* FCS returned are 32-bit values.
C9_Ranges ==
    /\ pc # "IndexError"
    /\ pc \in {"table_loop", "direct_loop", "direct_rounds"} => crc \in Word32
    /\ table_index \subseteq 0..7
    /\ (pc = "idle" /\ ret.op = "calculate_crc") => ret.result \in Word32
    /\ (pc = "idle" /\ ret.op = "calculate_fcs") =>
          (ret.result[1] \in Word32 /\ ret.result[2] \in Word32)

C9_Witness ==
    /\ pc = "table_loop" /\ pos > TABLE_SIZE /\ pos = Len(data) + 1
    /\ table_index \subseteq 0..7
    /\ crc \in Word32 /\ crc # INITIAL_VALUE

\* d and d2 have the same non-zero length and differ in exactly one bit
OneBitApart(d, d2) ==
    /\ Len(d) = Len(d2) /\ Len(d) > 0
    /\ Cardinality({pk \in (1..Len(d)) \X (0..7) :
                      (pk[2] \in BitsOf(d[pk[1]])) # (pk[2] \in BitsOf(d2[pk[1]]))}) = 1

\* C10: when the validated bytes differ in exactly one bit from the bytes
\* the received FCS was calculated of, the two CRCs differ and validate_frame
\* reports the frame invalid.
C10_SingleBitDetected ==
    (/\ ret.op = "validate_frame"
     /\ OneBitApart(data, ret.data)
     /\ ret.received_fcs = calculate_fcs(crc_table[ret.eng], data)[2])
        => /\ ret.result[2] # calculate_crc(crc_table[ret.eng], data, TRUE)
           /\ ret.result[1] = FALSE

C10_Witness ==
    /\ ret.op = "validate_frame"
    /\ Len(data) = 1
    /\ OneBitApart(data, ret.data)
    /\ ret.received_fcs = calculate_fcs(crc_table[ret.eng], data)[2]
    /\ ret.result[1] = FALSE

=============================================================================
